---- MODULE Spec2Model ----
(***************************************************************************)
(* idOS, arch/avr/timer_arch.h: Timer1 of an AVR as the system clock       *)
(* (u_now, m_now) and as the one-shot real-time timer (rtimer).            *)
(*                                                                         *)
(* The header gives the conversion macros, the register macros SEI_TIMER,  *)
(* CLI_TIMER and IS_TIMER_SET, and the declarations of the four functions. *)
(* The function bodies, the interrupt handler and the one-shot scheduler   *)
(* are not in the header: they are modelled from the design document and   *)
(* are built on the header's macros.                                       *)
(*                                                                         *)
(* Foreground code runs one instruction-level step at a time; the compare  *)
(* interrupt handler runs as one step (AVR clears the global interrupt     *)
(* flag on vector entry) between any two foreground steps; the counter     *)
(* advances between any two steps.                                         *)
(***************************************************************************)
EXTENDS Integers, Naturals, Sequences, FiniteSets, TLC

(* ------------------------- bounds of the model ------------------------ *)
\* foreground calls explored in one run
MaxCalls == 2
\* counter advances explored in one run
MaxAdvance == 3

(* ------------------------- constants of the header -------------------- *)
F_CPU == 16000000
TIMER_PRESCALER == 64
\* width of the Timer1 registers TCNT1 and OCR1A (0x0000..0xFFFF)
W16 == 65536
\* bit numbers of TIMSK1 and TIFR1 (compare A, overflow)
OCIE1A == 1
OCF1A == 1
TOV1 == 0

(* unsigned long, utime_t and mtime_t are 32 bits wide on AVR.  A 32-bit   *)
(* value is kept as its four bytes, low byte first, which is also how the  *)
(* 8-bit CPU reads and writes it.                                          *)
U32(n) == <<n % 256, (n \div 256) % 256, (n \div 65536) % 256, (n \div 16777216) % 256>>
Lo16(x) == x[1] + 256 * x[2]
Hi16(x) == x[3] + 256 * x[4]
Halves(hi, lo) == <<lo % 256, (lo \div 256) % 256, hi % 256, (hi \div 256) % 256>>
U32_MAX == <<255, 255, 255, 255>>

\* x + y modulo 2^32
Add32(x, y) == Halves((Hi16(x) + Hi16(y) + ((Lo16(x) + Lo16(y)) \div W16)) % W16,
                      (Lo16(x) + Lo16(y)) % W16)

\* x - y modulo 2^32
Sub32(x, y) == Halves((Hi16(x) - Hi16(y) - (IF Lo16(x) < Lo16(y) THEN 1 ELSE 0)) % W16,
                      (Lo16(x) - Lo16(y)) % W16)

\* x * y modulo 2^32, byte by byte
Mul32(x, y) ==
  LET c0 == x[1] * y[1]
      c1 == x[1] * y[2] + x[2] * y[1] + (c0 \div 256)
      c2 == x[1] * y[3] + x[2] * y[2] + x[3] * y[1] + (c1 \div 256)
      c3 == x[1] * y[4] + x[2] * y[3] + x[3] * y[2] + x[4] * y[1] + (c2 \div 256)
  IN  <<c0 % 256, c1 % 256, c2 % 256, c3 % 256>>

\* x / m (truncating), by long division from the high byte; m < 2^23
Div32(x, m) ==
  LET r3 == x[4] % m
      r2 == (r3 * 256 + x[3]) % m
      r1 == (r2 * 256 + x[2]) % m
  IN  (x[4] \div m) * 16777216 + ((r3 * 256 + x[3]) \div m) * 65536
      + ((r2 * 256 + x[2]) \div m) * 256 + ((r1 * 256 + x[1]) \div m)

\* x < 2^31, i.e. x read as a difference is not negative
NonNeg32(x) == x[4] < 128

\* the value of x, for x < 2^31
Int32(x) == Lo16(x) + W16 * Hi16(x)

\* FM_CPU: (F_CPU / 1000000L)
FM_CPU == Div32(U32(F_CPU), 1000000)

\* a conversion from FM_CPU (MHz) where F_CPU (Hz) is meant
MSEC_TO_CLK_mhz(msec) == Div32(Mul32(U32(msec), U32(FM_CPU)), 1000 * TIMER_PRESCALER)
\* a conversion with 1024 for 1000
MSEC_TO_CLK_1024(msec) == Div32(Mul32(U32(msec), U32(F_CPU)), 1024 * TIMER_PRESCALER)
\* MSEC_TO_CLK(msec): (msec * F_CPU) / (1000UL * TIMER_PRESCALER)
MSEC_TO_CLK(msec) == Div32(Mul32(U32(msec), U32(F_CPU)), 1000 * TIMER_PRESCALER)

\* a conversion that rounds up
USEC_TO_CLK_roundup(usec) ==
  Div32(Add32(Mul32(U32(usec), U32(FM_CPU)), U32(TIMER_PRESCALER - 1)), TIMER_PRESCALER)
\* a conversion that divides before it multiplies
USEC_TO_CLK_divfirst(usec) == Int32(Mul32(U32(Div32(U32(usec), TIMER_PRESCALER)), U32(FM_CPU)))

\* USEC_TO_CLK(usec): (usec * FM_CPU) / TIMER_PRESCALER
USEC_TO_CLK(usec) == Div32(Mul32(U32(usec), U32(FM_CPU)), TIMER_PRESCALER)

\* CLK_CYCLES_PER_USEC: (TIMER_PRESCALER / FM_CPU), microseconds per increment
CLK_CYCLES_PER_USEC == TIMER_PRESCALER \div FM_CPU

\* MAX_USEC as an expression of its own: 0xFFFFUL * TIMER_PRESCALER / FM_CPU
MAX_USEC == Div32(Mul32(U32(W16 - 1), U32(TIMER_PRESCALER)), FM_CPU)

(* ------------------------- register helpers --------------------------- *)
Bit(v, n) == (v \div (2 ^ n)) % 2

SetBit(v, n) == IF Bit(v, n) = 1 THEN v ELSE v + 2 ^ n

RECURSIVE ClearFrom(_, _, _)
ClearFrom(v, w, n) ==
  IF n > 7 THEN 0
  ELSE (IF Bit(v, n) = 1 /\ Bit(w, n) = 0 THEN 2 ^ n ELSE 0) + ClearFrom(v, w, n + 1)

\* a write to TIFR1: every flag written as 1 is cleared
WriteFlags(v, w) == ClearFrom(v, w, 0)

\* an enable step that leaves the flags pending
SEI_TIMER_flags_kept(tifr) == tifr
\* SEI_TIMER(): TIFR1 = 0xFF; TIMSK1 = 2
SEI_TIMER_flags(tifr) == WriteFlags(tifr, 255)
SEI_TIMER_mask(timsk) == 2

\* CLI_TIMER(): TIFR1 = 0xFF; (TIMSK1 = 0)
CLI_TIMER_flags(tifr) == WriteFlags(tifr, 255)
\* a disable step that leaves the enable bit as it was
CLI_TIMER_mask_kept(timsk) == timsk
\* a disable step that writes the value of the enable step
CLI_TIMER_mask_enable(timsk) == 2
CLI_TIMER_mask(timsk) == 0

\* IS_TIMER_SET: (TIMSK1 & 2)
IS_TIMER_SET(timsk) == 2 * Bit(timsk, OCIE1A)

(* ------------------------- design values ------------------------------ *)
\* MAX_REPRESENTABLE_INTERVAL of the design: one full run of the counter
MAX_REPRESENTABLE_INTERVAL == MAX_USEC
\* ticks of one full hardware interval (0xFFFF)
FULL_TICKS == USEC_TO_CLK(MAX_REPRESENTABLE_INTERVAL)
\* ticks between two clock interrupts: MSEC_TO_CLK(1)
PERIOD_TICKS == MSEC_TO_CLK(1)

\* delays handed to schedule, in microseconds
DelaySet == {0, 3, 500000, 2 * MAX_USEC}
\* uptimes (in milliseconds of pure clock operation) the runs start from
StartMs == {U32(0), U32_MAX}
\* the longest one foreground call lasts, in ticks (a call is a few
\* instructions; one tick is 64 CPU cycles)
InCallTicks == 4
\* how close to the next compare match the idle foreground may be brought
NearTicks == 2

VARIABLES
  TCNT1,                \* TIMER_TEMP, the running count
  OCR1A,                \* TIMER_COMP, the compare threshold
  TIMSK1,               \* interrupt enable bits
  TIFR1,                \* interrupt pending flags
  sys_msec,             \* accumulated_ms
  rt_state,             \* "IDLE" or "ARMED"
  remaining_intervals,
  final_compare_value,
  callback,             \* 0: none, n: the callback of request n
  pc, op,               \* position of the foreground code
  prior,                \* the enable state saved by the critical section
  arg,                  \* argument of the running call
  loc_ms, loc_cnt,      \* locals of the running call
  ret,                  \* what the last finished call returned
  called,               \* the name of the latest call
  call_ticks,           \* ticks counted since the running call began
  elapsed,              \* real time since the start, in ticks
  nadv, ncalls,         \* counter advances and calls so far
  nreq,                 \* requests accepted so far
  req,                  \* history of the latest request
  cb_count,             \* invocations of each request's callback
  cancelled,            \* requests whose cancel() has returned
  m_hist, u_hist,       \* the last two samples of m_now and of u_now
  irq_hist              \* history of the compare interrupts handled

hwVars == <<TCNT1, OCR1A, TIMSK1, TIFR1>>
rtVars == <<rt_state, remaining_intervals, final_compare_value, callback>>
fgVars == <<pc, op, prior, arg, loc_ms, loc_cnt, ret, called>>
reqVars == <<nreq, req, cb_count, cancelled>>
clkVars == <<m_hist, u_hist, irq_hist>>
vars == <<hwVars, sys_msec, rtVars, fgVars, call_ticks, elapsed, nadv, ncalls, reqVars, clkVars>>

\* history of a request: its delay, the intervals programmed for it (number,
\* first, last, sum, in ticks), the interrupts it took, whether it has fired,
\* and the real time at which it was armed and at which it fired
NoReq == [delay |-> 0, nprog |-> 0, firstprog |-> 0, lastprog |-> 0, progsum |-> 0,
          irqs |-> 0, done |-> FALSE, t0 |-> 0, tfire |-> 0]
\* samples of a clock read: how many, the latest value and its real time, the
\* one before, and the accumulator when the latest call began and returned
NoSample == [n |-> 0, v |-> U32(0), t |-> 0, pv |-> U32(0), pt |-> 0,
             entry |-> U32(0), exit |-> U32(0), rt |-> 0]

(* ------------------------- timer_sys_init_arch ------------------------ *)
\* the clock source after s milliseconds of undisturbed operation:
\* count at the last threshold, next threshold one period ahead
timer_sys_init_arch(s) ==
  /\ TCNT1 = Lo16(Mul32(s, U32(PERIOD_TICKS)))
  /\ OCR1A = (Lo16(Mul32(s, U32(PERIOD_TICKS))) + PERIOD_TICKS) % W16
  /\ TIMSK1 = SEI_TIMER_mask(0)
  /\ TIFR1 = IF Hi16(s) > 0 \/ Lo16(s) * PERIOD_TICKS >= W16 THEN 2 ^ TOV1 ELSE 0
  /\ sys_msec = s

\* rtimer_init_arch: the one-shot scheduler starts IDLE, without a request
rtimer_init_arch ==
  /\ rt_state = "IDLE"
  /\ remaining_intervals = 0
  /\ final_compare_value = 0
  /\ callback = 0

Init ==
  /\ \E s \in StartMs : timer_sys_init_arch(s)
  /\ rtimer_init_arch
  /\ pc = "idle" /\ op = "none" /\ prior = FALSE /\ arg = 0
  /\ loc_ms = U32(0) /\ loc_cnt = 0 /\ ret = "none"
  /\ called = "none" /\ call_ticks = 0
  /\ elapsed = 0 /\ nadv = 0 /\ ncalls = 0
  /\ nreq = 0 /\ req = NoReq
  /\ cb_count = [r \in 1..(MaxCalls + 1) |-> 0]
  /\ cancelled = {}
  /\ m_hist = NoSample /\ u_hist = NoSample
  /\ irq_hist = [k |-> 0, first |-> OCR1A, ms0 |-> sys_msec, lat |-> 0,
                 raised |-> "none", served |-> "none"]

(* ------------------------- the counter -------------------------------- *)
\* the handler is entered as soon as the flag is pending and enabled, before
\* the foreground executes its next step
IrqPending == Bit(TIFR1, OCF1A) = 1 /\ Bit(TIMSK1, OCIE1A) = 1

\* ticks until the count next equals the threshold (1..65536)
TicksToMatch(cnt, cmp) == ((cmp - cnt - 1) % W16) + 1

\* where a compare match finds the interrupt: enabled, disabled, or disabled
\* between the two writes of an SEI_TIMER
MatchContext(timsk, p) ==
  IF Bit(timsk, OCIE1A) = 1 THEN "enabled"
  ELSE IF p = "sei2" THEN "in_sei" ELSE "disabled"

\* Timer1 counts d ticks; reaching the threshold sets OCF1A, wrapping sets TOV1
Advance(d) ==
  /\ ~IrqPending
  /\ nadv < MaxAdvance
  /\ d >= 1 /\ d <= TicksToMatch(TCNT1, OCR1A)
  /\ pc = "idle" \/ call_ticks + d <= InCallTicks
  /\ TCNT1' = (TCNT1 + d) % W16
  /\ TIFR1' = LET f1 == IF d = TicksToMatch(TCNT1, OCR1A) THEN SetBit(TIFR1, OCF1A) ELSE TIFR1
              IN  IF TCNT1 + d >= W16 THEN SetBit(f1, TOV1) ELSE f1
  /\ elapsed' = elapsed + d
  /\ call_ticks' = IF pc = "idle" THEN 0 ELSE call_ticks + d
  /\ nadv' = nadv + 1
  /\ irq_hist' = IF d = TicksToMatch(TCNT1, OCR1A)
                 THEN [irq_hist EXCEPT !.raised = MatchContext(TIMSK1, pc)]
                 ELSE irq_hist
  /\ UNCHANGED <<OCR1A, TIMSK1, sys_msec, rtVars, fgVars, ncalls, reqVars, m_hist, u_hist>>

\* between two calls: up to shortly before the next compare match
AdvanceNear ==
  /\ pc = "idle"
  /\ TicksToMatch(TCNT1, OCR1A) > NearTicks
  /\ Advance(TicksToMatch(TCNT1, OCR1A) - NearTicks)

\* inside a call: one tick
AdvanceTick ==
  /\ pc # "idle"
  /\ TicksToMatch(TCNT1, OCR1A) > 1
  /\ Advance(1)

\* up to the next compare match
AdvanceToMatch == Advance(TicksToMatch(TCNT1, OCR1A))

(* ------------------------- the compare interrupt ---------------------- *)
\* entering the vector acknowledges the flag
Acknowledge(tifr) == IF Bit(tifr, OCF1A) = 1 THEN tifr - 2 ^ OCF1A ELSE tifr

\* an accumulator that advances by the ticks of the period
Accumulate_ticks(ms) == Add32(ms, U32(PERIOD_TICKS))
\* the accumulator advances by the fixed period of one millisecond
Accumulate(ms) == Add32(ms, U32(1))

\* one more interrupt handled; lat: ticks counted since the match; served:
\* where the match it serves found the interrupt
Handled(h, cnt, cmp) == [h EXCEPT !.k = @ + 1, !.lat = (cnt - cmp) % W16, !.served = h.raised]

\* no one-shot outstanding: the next threshold is the previous one plus a period
ISR_clock ==
  /\ IrqPending
  /\ rt_state = "IDLE"
  /\ TIFR1' = Acknowledge(TIFR1)
  /\ sys_msec' = Accumulate(sys_msec)
  /\ OCR1A' = (OCR1A + PERIOD_TICKS) % W16
  /\ irq_hist' = Handled(irq_hist, TCNT1, OCR1A)
  /\ UNCHANGED <<TCNT1, TIMSK1, rtVars, fgVars, call_ticks, elapsed, nadv, ncalls, reqVars,
                 m_hist, u_hist>>

\* threshold of the interval that follows, from the previous threshold
NextThreshold(cmp, left, final) == IF left > 0 THEN (cmp + FULL_TICKS) % W16 ELSE final

\* ticks the handler programs when `left` full intervals remain after this one
NextTicks(cmp, left, final) == IF left > 0 THEN FULL_TICKS ELSE (final - cmp) % W16

\* a one-shot is outstanding and intervals remain: program the next one
ISR_rearm ==
  /\ IrqPending
  /\ rt_state = "ARMED"
  /\ remaining_intervals > 0
  /\ TIFR1' = Acknowledge(TIFR1)
  /\ sys_msec' = Accumulate(sys_msec)
  /\ remaining_intervals' = remaining_intervals - 1
  /\ OCR1A' = NextThreshold(OCR1A, remaining_intervals - 1, final_compare_value)
  /\ req' = [req EXCEPT !.nprog = @ + 1, !.irqs = @ + 1,
                        !.lastprog = NextTicks(OCR1A, remaining_intervals - 1, final_compare_value),
                        !.progsum = @ + NextTicks(OCR1A, remaining_intervals - 1, final_compare_value)]
  /\ irq_hist' = Handled(irq_hist, TCNT1, OCR1A)
  /\ UNCHANGED <<TCNT1, TIMSK1, rt_state, final_compare_value, callback, fgVars,
                 call_ticks, elapsed, nadv, ncalls, nreq, cb_count, cancelled, m_hist, u_hist>>

\* the final interval has elapsed: disable, invoke the callback, go IDLE
ISR_fire ==
  /\ IrqPending
  /\ rt_state = "ARMED"
  /\ remaining_intervals = 0
  /\ sys_msec' = Accumulate(sys_msec)
  /\ TIFR1' = CLI_TIMER_flags(Acknowledge(TIFR1))
  /\ TIMSK1' = CLI_TIMER_mask(TIMSK1)
  /\ cb_count' = [cb_count EXCEPT ![callback] = @ + 1]
  /\ req' = [req EXCEPT !.irqs = @ + 1, !.done = TRUE, !.tfire = elapsed]
  /\ rt_state' = "IDLE"
  /\ callback' = 0
  /\ irq_hist' = Handled(irq_hist, TCNT1, OCR1A)
  /\ UNCHANGED <<TCNT1, OCR1A, remaining_intervals, final_compare_value, fgVars,
                 call_ticks, elapsed, nadv, ncalls, nreq, cancelled, m_hist, u_hist>>

(* ------------------------- critical section -------------------------- *)
\* acquisition, first write of CLI_TIMER: TIFR1 = 0xFF
Cli1 ==
  /\ pc = "cli1" /\ ~IrqPending
  /\ TIFR1' = CLI_TIMER_flags(TIFR1)
  /\ pc' = "cli2"
  /\ UNCHANGED <<called, TCNT1, OCR1A, TIMSK1, sys_msec, rtVars, op, prior, arg, loc_ms, loc_cnt, ret,
                 call_ticks, elapsed, nadv, ncalls, reqVars, clkVars>>

\* where each operation continues once the interrupt is disabled
Body(o) == CASE o = "m_now" -> "rd0"
             [] o = "u_now" -> "u_ms"
             [] o = "schedule" -> "s_split"
             [] OTHER -> "c_idle"

\* acquisition, second write of CLI_TIMER: TIMSK1 = 0
Cli2 ==
  /\ pc = "cli2" /\ ~IrqPending
  /\ TIMSK1' = CLI_TIMER_mask(TIMSK1)
  /\ pc' = Body(op)
  /\ UNCHANGED <<called, TCNT1, OCR1A, TIFR1, sys_msec, rtVars, op, prior, arg, loc_ms, loc_cnt, ret,
                 call_ticks, elapsed, nadv, ncalls, reqVars, clkVars>>

\* release of m_now and u_now: the interrupt is enabled again only if it was
\* enabled on entry
Release(was) == IF was THEN "sei1" ELSE "ret"

\* first write of SEI_TIMER: TIFR1 = 0xFF
Sei1 ==
  /\ pc = "sei1" /\ ~IrqPending
  /\ TIFR1' = SEI_TIMER_flags(TIFR1)
  /\ pc' = "sei2"
  /\ UNCHANGED <<called, TCNT1, OCR1A, TIMSK1, sys_msec, rtVars, op, prior, arg, loc_ms, loc_cnt, ret,
                 call_ticks, elapsed, nadv, ncalls, reqVars, clkVars>>

\* second write of SEI_TIMER: TIMSK1 = 2
Sei2 ==
  /\ pc = "sei2" /\ ~IrqPending
  /\ TIMSK1' = SEI_TIMER_mask(TIMSK1)
  /\ pc' = "ret"
  /\ UNCHANGED <<called, TCNT1, OCR1A, TIFR1, sys_msec, rtVars, op, prior, arg, loc_ms, loc_cnt, ret,
                 call_ticks, elapsed, nadv, ncalls, reqVars, clkVars>>

(* ------------------------- m_now -------------------------------------- *)
m_now_call ==
  /\ pc = "idle" /\ ~IrqPending /\ ncalls < MaxCalls
  /\ op' = "m_now" /\ pc' = "cli1"
  /\ prior' = (IS_TIMER_SET(TIMSK1) # 0)
  /\ loc_ms' = U32(0)
  /\ m_hist' = [m_hist EXCEPT !.entry = sys_msec]
  /\ ncalls' = ncalls + 1 /\ call_ticks' = 0
  /\ called' = "m_now"
  /\ UNCHANGED <<hwVars, sys_msec, rtVars, arg, loc_cnt, ret, elapsed, nadv, reqVars, u_hist, irq_hist>>

\* the accumulator is read one byte at a time (8-bit CPU), low byte first
ByteIndex(p) == CASE p = "rd0" -> 1 [] p = "rd1" -> 2 [] p = "rd2" -> 3 [] OTHER -> 4

m_now_read ==
  /\ pc \in {"rd0", "rd1", "rd2", "rd3"} /\ ~IrqPending
  /\ loc_ms' = [loc_ms EXCEPT ![ByteIndex(pc)] = sys_msec[ByteIndex(pc)]]
  /\ pc' = CASE pc = "rd0" -> "rd1" [] pc = "rd1" -> "rd2" [] pc = "rd2" -> "rd3"
             [] OTHER -> Release(prior)
  /\ UNCHANGED <<called, hwVars, sys_msec, rtVars, op, prior, arg, loc_cnt, ret,
                 call_ticks, elapsed, nadv, ncalls, reqVars, clkVars>>

m_now_return ==
  /\ pc = "ret" /\ ~IrqPending /\ op = "m_now"
  /\ ret' = loc_ms
  /\ m_hist' = [m_hist EXCEPT !.n = @ + 1, !.v = loc_ms, !.t = elapsed,
                              !.pv = m_hist.v, !.pt = m_hist.t, !.exit = sys_msec]
  /\ pc' = "idle" /\ op' = "none"
  /\ UNCHANGED <<called, hwVars, sys_msec, rtVars, prior, arg, loc_ms, loc_cnt,
                 call_ticks, elapsed, nadv, ncalls, reqVars, u_hist, irq_hist>>

(* ------------------------- u_now -------------------------------------- *)
\* ticks since the last threshold, i.e. since the accumulator last advanced
SubMsTicks(cnt, cmp) == (cnt - (cmp - PERIOD_TICKS)) % W16

\* accumulated_ms * 1000 + sub_ms_ticks * tick_period_us, as utime_t
MicroTime(ms, sub) == Add32(Mul32(ms, U32(1000)), U32(sub * CLK_CYCLES_PER_USEC))

u_now_call ==
  /\ pc = "idle" /\ ~IrqPending /\ ncalls < MaxCalls
  /\ op' = "u_now" /\ pc' = "cli1"
  /\ prior' = (IS_TIMER_SET(TIMSK1) # 0)
  /\ ncalls' = ncalls + 1 /\ call_ticks' = 0
  /\ called' = "u_now"
  /\ UNCHANGED <<hwVars, sys_msec, rtVars, arg, loc_ms, loc_cnt, ret, elapsed, nadv,
                 reqVars, clkVars>>

u_now_read_ms ==
  /\ pc = "u_ms" /\ ~IrqPending
  /\ loc_ms' = sys_msec
  /\ pc' = "u_cnt"
  /\ UNCHANGED <<called, hwVars, sys_msec, rtVars, op, prior, arg, loc_cnt, ret,
                 call_ticks, elapsed, nadv, ncalls, reqVars, clkVars>>

u_now_read_count ==
  /\ pc = "u_cnt" /\ ~IrqPending
  /\ loc_cnt' = SubMsTicks(TCNT1, OCR1A)
  /\ u_hist' = [u_hist EXCEPT !.rt = elapsed]
  /\ pc' = Release(prior)
  /\ UNCHANGED <<called, hwVars, sys_msec, rtVars, op, prior, arg, loc_ms, ret,
                 call_ticks, elapsed, nadv, ncalls, reqVars, m_hist, irq_hist>>

u_now_return ==
  /\ pc = "ret" /\ ~IrqPending /\ op = "u_now"
  /\ ret' = MicroTime(loc_ms, loc_cnt)
  /\ u_hist' = [u_hist EXCEPT !.n = @ + 1, !.v = MicroTime(loc_ms, loc_cnt),
                              !.t = u_hist.rt, !.pv = u_hist.v, !.pt = u_hist.t]
  /\ pc' = "idle" /\ op' = "none"
  /\ UNCHANGED <<called, hwVars, sys_msec, rtVars, prior, arg, loc_ms, loc_cnt,
                 call_ticks, elapsed, nadv, ncalls, reqVars, m_hist, irq_hist>>

(* ------------------------- schedule ----------------------------------- *)
\* a check that never finds the scheduler busy
Busy_never(st) == FALSE
\* only one outstanding one-shot is supported
Busy(st) == st = "ARMED"

\* remaining_intervals = delay / MAX_REPRESENTABLE_INTERVAL
FullIntervals(d) == d \div MAX_REPRESENTABLE_INTERVAL

\* ticks of the final partial interval
PartialTicks(d) == USEC_TO_CLK(d % MAX_REPRESENTABLE_INTERVAL)

\* a delay below the resolution is served at the next tick, never dropped
AtLeastOneTick(t) == IF t = 0 THEN 1 ELSE t

\* ticks of the first interval programmed
FirstTicks(d) == IF FullIntervals(d) > 0 THEN FULL_TICKS ELSE AtLeastOneTick(PartialTicks(d))

\* threshold of the final interval, counted from the count read when arming
FinalCompare(base, d) ==
  IF FullIntervals(d) > 0
  THEN (base + FullIntervals(d) * FULL_TICKS + PartialTicks(d)) % W16
  ELSE (base + AtLeastOneTick(PartialTicks(d))) % W16

schedule_busy(d) ==
  /\ pc = "idle" /\ ~IrqPending /\ ncalls < MaxCalls
  /\ Busy(rt_state)
  /\ ret' = "BusyError"
  /\ ncalls' = ncalls + 1 /\ call_ticks' = 0
  /\ called' = "schedule"
  /\ UNCHANGED <<hwVars, sys_msec, rtVars, pc, op, prior, arg, loc_ms, loc_cnt,
                 elapsed, nadv, reqVars, clkVars>>

\* the request is accepted: arming runs in a critical section.  The delay is
\* a utime_t; split as below, every utime_t value gives at most 16384 full
\* intervals and a remainder below one interval
schedule_call(d) ==
  /\ pc = "idle" /\ ~IrqPending /\ ncalls < MaxCalls
  /\ ~Busy(rt_state)
  /\ op' = "schedule" /\ pc' = "cli1"
  /\ arg' = d
  /\ prior' = (IS_TIMER_SET(TIMSK1) # 0)
  /\ ncalls' = ncalls + 1 /\ call_ticks' = 0
  /\ called' = "schedule"
  /\ UNCHANGED <<hwVars, sys_msec, rtVars, loc_ms, loc_cnt, ret,
                 elapsed, nadv, reqVars, clkVars>>

\* the delay is decomposed and the request is stored
schedule_split ==
  /\ pc = "s_split" /\ ~IrqPending
  /\ loc_cnt' = TCNT1
  /\ remaining_intervals' = FullIntervals(arg)
  /\ final_compare_value' = FinalCompare(TCNT1, arg)
  /\ callback' = nreq + 1
  /\ nreq' = nreq + 1
  /\ req' = [NoReq EXCEPT !.delay = arg]
  /\ pc' = "s_comp"
  /\ UNCHANGED <<called, hwVars, sys_msec, rt_state, op, prior, arg, loc_ms, ret,
                 call_ticks, elapsed, nadv, ncalls, cb_count, cancelled, clkVars>>

\* write_compare for the first interval
schedule_compare ==
  /\ pc = "s_comp" /\ ~IrqPending
  /\ OCR1A' = (loc_cnt + FirstTicks(arg)) % W16
  /\ req' = [req EXCEPT !.nprog = 1, !.progsum = FirstTicks(arg), !.firstprog = FirstTicks(arg),
                        !.lastprog = FirstTicks(arg), !.t0 = elapsed]
  /\ pc' = "s_arm"
  /\ UNCHANGED <<called, TCNT1, TIMSK1, TIFR1, sys_msec, rtVars, op, prior, arg, loc_ms, loc_cnt, ret,
                 call_ticks, elapsed, nadv, ncalls, nreq, cb_count, cancelled, clkVars>>

\* still inside the critical section the scheduler becomes ARMED; the section
\* then ends by enabling the interrupt (SEI_TIMER), whatever state it found
schedule_arm ==
  /\ pc = "s_arm" /\ ~IrqPending
  /\ rt_state' = "ARMED"
  /\ pc' = "sei1"
  /\ UNCHANGED <<called, hwVars, sys_msec, remaining_intervals, final_compare_value, callback,
                 op, prior, arg, loc_ms, loc_cnt, ret, call_ticks, elapsed, nadv, ncalls,
                 reqVars, clkVars>>

schedule_return ==
  /\ pc = "ret" /\ ~IrqPending /\ op = "schedule"
  /\ ret' = "Handle"
  /\ pc' = "idle" /\ op' = "none"
  /\ UNCHANGED <<called, hwVars, sys_msec, rtVars, prior, arg, loc_ms, loc_cnt,
                 call_ticks, elapsed, nadv, ncalls, reqVars, clkVars>>

(* ------------------------- cancel ------------------------------------- *)
\* nothing is outstanding: a no-op that succeeds
cancel_idle ==
  /\ pc = "idle" /\ ~IrqPending /\ ncalls < MaxCalls
  /\ rt_state = "IDLE"
  /\ ret' = "OK"
  /\ ncalls' = ncalls + 1 /\ call_ticks' = 0
  /\ called' = "cancel"
  /\ UNCHANGED <<hwVars, sys_msec, rtVars, pc, op, prior, arg, loc_ms, loc_cnt,
                 elapsed, nadv, reqVars, clkVars>>

\* a request is outstanding: disable the interrupt (CLI_TIMER), then go IDLE
cancel_call ==
  /\ pc = "idle" /\ ~IrqPending /\ ncalls < MaxCalls
  /\ rt_state = "ARMED"
  /\ op' = "cancel" /\ pc' = "cli1"
  /\ arg' = callback
  /\ ncalls' = ncalls + 1 /\ call_ticks' = 0
  /\ called' = "cancel"
  /\ UNCHANGED <<hwVars, sys_msec, rtVars, prior, loc_ms, loc_cnt, ret,
                 elapsed, nadv, reqVars, clkVars>>

cancel_return ==
  /\ pc = "c_idle" /\ ~IrqPending
  /\ rt_state' = "IDLE"
  /\ callback' = 0
  /\ cancelled' = cancelled \cup {arg}
  /\ ret' = "OK"
  /\ pc' = "idle" /\ op' = "none"
  /\ UNCHANGED <<called, hwVars, sys_msec, remaining_intervals, final_compare_value,
                 prior, arg, loc_ms, loc_cnt, call_ticks, elapsed, nadv, ncalls, nreq, req, cb_count, clkVars>>

(* ------------------------- the program -------------------------------- *)
Next ==
  \/ AdvanceNear
  \/ AdvanceTick
  \/ AdvanceToMatch
  \/ ISR_clock
  \/ ISR_rearm
  \/ ISR_fire
  \/ Cli1
  \/ Cli2
  \/ Sei1
  \/ Sei2
  \/ m_now_call
  \/ m_now_read
  \/ m_now_return
  \/ u_now_call
  \/ u_now_read_ms
  \/ u_now_read_count
  \/ u_now_return
  \/ \E d \in DelaySet : schedule_busy(d)
  \/ \E d \in DelaySet : schedule_call(d)
  \/ schedule_split
  \/ schedule_compare
  \/ schedule_arm
  \/ schedule_return
  \/ cancel_idle
  \/ cancel_call
  \/ cancel_return

Spec == Init /\ [][Next]_vars

(* ------------------------- the macros on their own -------------------- *)
(* The macros of the header are text: a use site gets the replacement list   *)
(* with the argument pasted in, and C's precedence then decides.  Each use   *)
(* below is evaluated as the expanded expression, in unsigned long.          *)

\* d / MAX_USEC  ->  d / 0xFFFFUL * TIMER_PRESCALER / FM_CPU
MAX_USEC_divides(d) ==
  Div32(Mul32(U32(Div32(U32(d), W16 - 1)), U32(TIMER_PRESCALER)), FM_CPU)

\* d % MAX_USEC  ->  d % 0xFFFFUL * TIMER_PRESCALER / FM_CPU
MAX_USEC_modulo(d) ==
  Div32(Mul32(U32(d % (W16 - 1)), U32(TIMER_PRESCALER)), FM_CPU)

\* MSEC_TO_CLK(a + b)  ->  (a + b * F_CPU) / (1000UL * TIMER_PRESCALER)
MSEC_TO_CLK_sum(a, b) ==
  Div32(Add32(U32(a), Mul32(U32(b), U32(F_CPU))), 1000 * TIMER_PRESCALER)

\* USEC_TO_CLK(a + b)  ->  (a + b * FM_CPU) / TIMER_PRESCALER
USEC_TO_CLK_sum(a, b) ==
  Div32(Add32(U32(a), Mul32(U32(b), U32(FM_CPU))), TIMER_PRESCALER)

\* microsecond arguments: the whole range of one run of the counter
UsecInputs == 0..MAX_USEC
\* millisecond arguments: the tick counts that fit the 16-bit counter
MsecInputs == 0..262
\* microsecond delays whose product with FM_CPU reaches 2^32: from the first
\* such delay (2^28) to the largest below 2^31
LongUsecInputs == {268435456, 268435460, 1000000000, 2147483647}
\* millisecond delays whose product with F_CPU reaches 2^32: from the first
\* such delay (269)
LongMsecInputs == {269, 1000, 100000}
\* delays to be split into full intervals and a remainder
SplitInputs == {0, 4, 65535, 262139, 262140, 262141, 500000, 524280, 1000000}
\* terms of a sum handed to a conversion
SumInputs == {0, 1, 2, 100, 1000}
\* values of TIMSK1 and TIFR1: bits TOIE1/TOV1, OCIE1A/OCF1A, OCIE1B/OCF1B, ICIE1/ICF1
RegInputs == {0, 1, 2, 3, 4, 6, 32, 39}

MacroUses ==
  {[op |-> "USEC_TO_CLK", a |-> u, b |-> 0] : u \in UsecInputs}
  \cup {[op |-> "MSEC_TO_CLK", a |-> m, b |-> 0] : m \in MsecInputs}
  \cup {[op |-> "USEC_TO_CLK delay", a |-> u, b |-> 0] : u \in LongUsecInputs}
  \cup {[op |-> "MSEC_TO_CLK delay", a |-> m, b |-> 0] : m \in LongMsecInputs}
  \cup {[op |-> o, a |-> d, b |-> 0] : o \in {"div MAX_USEC", "mod MAX_USEC"}, d \in SplitInputs}
  \cup {[op |-> o, a |-> x, b |-> y] : o \in {"MSEC_TO_CLK sum", "USEC_TO_CLK sum"},
                                       x \in SumInputs, y \in SumInputs}
  \cup {[op |-> o, a |-> x, b |-> y] : o \in {"SEI_TIMER", "CLI_TIMER"},
                                       x \in RegInputs, y \in RegInputs}

\* one use of a macro is about to be evaluated: arg and loc_cnt hold its
\* operands; for SEI_TIMER and CLI_TIMER they hold TIMSK1 and TIFR1 as found
InitMacros ==
  /\ \E u \in MacroUses :
       /\ op = u.op /\ arg = u.a /\ loc_cnt = u.b
       /\ TIMSK1 = IF u.op \in {"SEI_TIMER", "CLI_TIMER"} THEN u.a ELSE 0
       /\ TIFR1 = IF u.op \in {"SEI_TIMER", "CLI_TIMER"} THEN u.b ELSE 0
  /\ TCNT1 = 0 /\ OCR1A = PERIOD_TICKS /\ sys_msec = U32(0)
  /\ rtimer_init_arch
  /\ pc = "apply" /\ prior = FALSE
  /\ loc_ms = U32(0) /\ ret = "none"
  /\ called = "none" /\ call_ticks = 0
  /\ elapsed = 0 /\ nadv = 0 /\ ncalls = 0
  /\ nreq = 0 /\ req = NoReq
  /\ cb_count = [r \in 1..(MaxCalls + 1) |-> 0]
  /\ cancelled = {}
  /\ m_hist = NoSample /\ u_hist = NoSample
  /\ irq_hist = [k |-> 0, first |-> OCR1A, ms0 |-> sys_msec, lat |-> 0,
                 raised |-> "none", served |-> "none"]

\* the use named o evaluates to v
Evaluate(o, v) ==
  /\ pc = "apply" /\ op = o
  /\ ret' = v
  /\ pc' = "done"
  /\ UNCHANGED <<hwVars, sys_msec, rtVars, op, prior, arg, loc_ms, loc_cnt, called,
                 call_ticks, elapsed, nadv, ncalls, reqVars, clkVars>>

use_USEC_TO_CLK == Evaluate("USEC_TO_CLK", USEC_TO_CLK(arg))
use_MSEC_TO_CLK == Evaluate("MSEC_TO_CLK", MSEC_TO_CLK(arg))
use_MAX_USEC_divides == Evaluate("div MAX_USEC", MAX_USEC_divides(arg))
use_MAX_USEC_modulo == Evaluate("mod MAX_USEC", MAX_USEC_modulo(arg))
use_MSEC_TO_CLK_sum == Evaluate("MSEC_TO_CLK sum", MSEC_TO_CLK_sum(arg, loc_cnt))
use_USEC_TO_CLK_sum == Evaluate("USEC_TO_CLK sum", USEC_TO_CLK_sum(arg, loc_cnt))

\* TIMER_COMP = v: the 16-bit compare register keeps the low 16 bits
TIMER_COMP_write(v) == v % W16

\* the use named o converts a delay to the ticks v and programs them:
\* TIMER_COMP = USEC_TO_CLK(delay), TIMER_COMP = MSEC_TO_CLK(delay)
Program(o, v) ==
  /\ pc = "apply" /\ op = o
  /\ ret' = v
  /\ OCR1A' = TIMER_COMP_write(v)
  /\ pc' = "done"
  /\ UNCHANGED <<TCNT1, TIMSK1, TIFR1, sys_msec, rtVars, op, prior, arg, loc_ms, loc_cnt, called,
                 call_ticks, elapsed, nadv, ncalls, reqVars, clkVars>>

use_USEC_TO_CLK_delay == Program("USEC_TO_CLK delay", USEC_TO_CLK(arg))
use_MSEC_TO_CLK_delay == Program("MSEC_TO_CLK delay", MSEC_TO_CLK(arg))

\* SEI_TIMER() as a statement: both register writes
use_SEI_TIMER ==
  /\ pc = "apply" /\ op = "SEI_TIMER"
  /\ TIFR1' = SEI_TIMER_flags(TIFR1)
  /\ TIMSK1' = SEI_TIMER_mask(TIMSK1)
  /\ pc' = "done"
  /\ UNCHANGED <<TCNT1, OCR1A, sys_msec, rtVars, op, prior, arg, loc_ms, loc_cnt, ret, called,
                 call_ticks, elapsed, nadv, ncalls, reqVars, clkVars>>

\* CLI_TIMER() as a statement: both register writes
use_CLI_TIMER ==
  /\ pc = "apply" /\ op = "CLI_TIMER"
  /\ TIFR1' = CLI_TIMER_flags(TIFR1)
  /\ TIMSK1' = CLI_TIMER_mask(TIMSK1)
  /\ pc' = "done"
  /\ UNCHANGED <<TCNT1, OCR1A, sys_msec, rtVars, op, prior, arg, loc_ms, loc_cnt, ret, called,
                 call_ticks, elapsed, nadv, ncalls, reqVars, clkVars>>

NextMacros ==
  \/ use_USEC_TO_CLK
  \/ use_MSEC_TO_CLK
  \/ use_USEC_TO_CLK_delay
  \/ use_MSEC_TO_CLK_delay
  \/ use_MAX_USEC_divides
  \/ use_MAX_USEC_modulo
  \/ use_MSEC_TO_CLK_sum
  \/ use_USEC_TO_CLK_sum
  \/ use_SEI_TIMER
  \/ use_CLI_TIMER

SpecMacros == InitMacros /\ [][NextMacros]_vars

(* ------------------------- properties --------------------------------- *)
\* ceil(d / m)
CeilDiv(d, m) == (d + m - 1) \div m

\* the latest request has fired and its delay exceeded one full interval
FiredLong == req.done /\ req.delay > MAX_REPRESENTABLE_INTERVAL

\* C1: a request with a delay D above MAX_REPRESENTABLE_INTERVAL that has fired was
\* served by exactly ceil(D / MAX_REPRESENTABLE_INTERVAL) programmed compare
\* intervals, one interrupt each, whose sum is within one tick (4 us) of D, and
\* its callback ran exactly once, on the last interrupt: none ran while it was
\* still ARMED.  Exact multiples of MAX_REPRESENTABLE_INTERVAL are included.
C1_DecomposesIntoCeilIntervals ==
  /\ FiredLong =>
       /\ req.nprog = CeilDiv(req.delay, MAX_REPRESENTABLE_INTERVAL)
       /\ req.irqs = req.nprog
       /\ req.delay - req.progsum * CLK_CYCLES_PER_USEC \in 0..CLK_CYCLES_PER_USEC
       /\ cb_count[nreq] = 1
  /\ (rt_state = "ARMED" /\ callback > 0) => cb_count[callback] = 0

\* requests that were accepted and have neither fired nor been cancelled
Live == {r \in 1..nreq : cb_count[r] = 0 /\ r \notin cancelled}

\* a step that is a call of schedule made while a request is ARMED
ScheduleWhileArmed == rt_state = "ARMED" /\ ncalls' # ncalls /\ called' = "schedule"

\* C2: a call of schedule made while a request is ARMED returns BusyError and
\* leaves remaining_intervals, final_compare_value, the callback, TIMER_COMP and
\* the interrupt enable as they were; at most one request is live in any state.
C2_BusyLeavesRequestAlone ==
  /\ [](Cardinality(Live) <= 1)
  /\ [][ScheduleWhileArmed =>
          /\ ret' = "BusyError" /\ pc' = "idle"
          /\ UNCHANGED <<rt_state, remaining_intervals, final_compare_value, callback,
                         OCR1A, TIMSK1>>]_vars

\* a call of schedule has been refused while a request with intervals left was ARMED
C2_Witness ==
  /\ ret = "BusyError" /\ called = "schedule"
  /\ rt_state = "ARMED" /\ remaining_intervals > 0 /\ IS_TIMER_SET(TIMSK1) # 0

\* a step that is a call of cancel made while nothing is outstanding
CancelWhileIdle == rt_state = "IDLE" /\ ncalls' # ncalls /\ called' = "cancel"

\* the step on which a cancel of an ARMED request returns
CancelReturns == op = "cancel" /\ pc # "idle" /\ pc' = "idle"

\* C3: cancel() when IDLE changes no state and returns success; cancel() when
\* ARMED returns with the scheduler IDLE and the compare interrupt disabled; and
\* once cancel() has returned, the callback of the cancelled request is not
\* invoked again, wherever the compare match fell among the steps of CLI_TIMER.
C3_CancelStopsCallback ==
  /\ [][CancelWhileIdle =>
          /\ ret' = "OK" /\ pc' = "idle"
          /\ UNCHANGED <<hwVars, sys_msec, rtVars, reqVars>>]_vars
  /\ [][CancelReturns =>
          /\ ret' = "OK" /\ rt_state' = "IDLE" /\ IS_TIMER_SET(TIMSK1') = 0]_vars
  /\ [][\A r \in cancelled : cb_count'[r] = cb_count[r]]_vars

\* cancel() has returned although a compare match fell after the enable bit was
\* cleared: the flag is pending, the callback was not invoked
C3_Witness ==
  /\ pc = "idle" /\ called = "cancel" /\ ret = "OK"
  /\ cancelled # {} /\ \A r \in cancelled : cb_count[r] = 0
  /\ Bit(TIFR1, OCF1A) = 1 /\ IS_TIMER_SET(TIMSK1) = 0

\* some request has fired or has been cancelled and none is outstanding
Finished == rt_state = "IDLE" /\ nreq > 0 /\ Live = {}

\* C4: outside the foreground's critical sections, the compare interrupt is
\* enabled whenever a request is ARMED, and it is disabled, with no request
\* left, once the request has fired or has been cancelled.
C4_EnableFollowsArmed ==
  pc = "idle" =>
    /\ rt_state = "ARMED" => IS_TIMER_SET(TIMSK1) # 0
    /\ Finished => (IS_TIMER_SET(TIMSK1) = 0 /\ callback = 0)

\* C5: two successive m_now() reads a, b differ (modulo 2^32) by the real time
\* elapsed between them in milliseconds, to within one interrupt period; a
\* second period is allowed here for the time the two calls themselves take.
C5_ClockFollowsRealTime ==
  m_hist.n >= 2 =>
    LET d == Sub32(m_hist.v, m_hist.pv)
        e == m_hist.t - m_hist.pt
    IN  /\ NonNeg32(d)
        /\ Hi16(d) = 0
        /\ Lo16(d) * PERIOD_TICKS - e <= 2 * PERIOD_TICKS
        /\ e - Lo16(d) * PERIOD_TICKS <= 2 * PERIOD_TICKS

\* C6: two successive u_now() samples do not decrease (modulo 2^32), and the
\* later exceeds the earlier by no more than the time elapsed between the two
\* samplings plus one interrupt period plus one tick (1000 us + 4 us).
C6_MicrosMonotone ==
  u_hist.n >= 2 =>
    LET d == Sub32(u_hist.v, u_hist.pv)
        e == (u_hist.t - u_hist.pt) * CLK_CYCLES_PER_USEC
    IN  /\ NonNeg32(d)
        /\ Int32(d) <= e + 1000 + CLK_CYCLES_PER_USEC

\* C7: the value m_now() returns is the accumulator as it was when the call
\* began or as it is when the call returns, never a mix of bytes of both.
C7_NeverTorn ==
  (m_hist.n >= 1 /\ called = "m_now" /\ pc = "idle") =>
    m_hist.v \in {m_hist.entry, m_hist.exit}

\* m_now() returned while the interrupt carried the accumulator over all four
\* bytes (0xFFFFFFFF -> 0) during the call
C7_Witness ==
  /\ m_hist.n >= 1 /\ called = "m_now" /\ pc = "idle"
  /\ m_hist.entry = U32_MAX /\ m_hist.exit = U32(0)

\* ticks of a delay of `usec` microseconds (FM_CPU / TIMER_PRESCALER = 1 / 4)
TicksOfUsec(usec) == usec \div 4
\* ticks of a delay of `msec` milliseconds, kept below 2^31 (250 a millisecond)
TicksOfMsec(msec) == 250 * msec

C9_SubTickFiresAtOnce ==
  /\ (req.delay < CLK_CYCLES_PER_USEC /\ rt_state = "ARMED" /\ callback = nreq) =>
       TicksToMatch(TCNT1, OCR1A) < W16 - InCallTicks \/ Bit(TIFR1, OCF1A) = 1
  /\ (req.delay < CLK_CYCLES_PER_USEC /\ req.done) =>
       /\ cb_count[nreq] = 1
       /\ req.irqs = 1
       /\ req.tfire - req.t0 < W16 - InCallTicks

\* C10: with 16 MHz and prescaler 64 a tick is 4 us and MAX_USEC is 262140 us;
\* schedule(500000 us) is served by one full interval of 65535 ticks and one
\* partial interval of 59465 ticks, 125000 ticks in all, and then the callback
\* is invoked once.
C10_HalfSecond ==
  /\ CLK_CYCLES_PER_USEC = 4
  /\ MAX_USEC = 262140
  /\ USEC_TO_CLK(500000) = 125000
  /\ (req.delay = 500000 /\ req.nprog >= 1) => req.firstprog = 65535
  /\ (req.delay = 500000 /\ req.done) =>
       /\ req.nprog = 2 /\ req.irqs = 2
       /\ req.lastprog = 59465
       /\ req.progsum = 125000
       /\ cb_count[nreq] = 1

\* the request of 500000 us has fired
C10_Witness == req.delay = 500000 /\ req.done /\ cb_count[nreq] = 1

\* a step that enters the critical section of m_now, u_now or schedule
SectionEntered == pc = "idle" /\ pc' = "cli1" /\ op' # "cancel"

\* a step that leaves it: the release is complete and the call returns next
SectionLeft == pc # "ret" /\ pc' = "ret" /\ op # "cancel"

\* C11: the critical sections of m_now, u_now and of arming save the enable bit
\* OCIE1A as it is on entry, keep the saved value to the end, and leave the bit
\* as saved: entered with the interrupt disabled they end with it disabled;
\* the release writes SEI_TIMER only when the saved state was enabled.
C11_SectionRestoresEnable ==
  /\ [][SectionEntered => (prior' <=> Bit(TIMSK1, OCIE1A) = 1)]_vars
  /\ [][(pc # "idle" /\ pc' # "idle") => prior' = prior]_vars
  /\ [][SectionLeft => (Bit(TIMSK1', OCIE1A) = 1 <=> prior)]_vars
  /\ [][(pc # "sei1" /\ pc' = "sei1") => prior]_vars

\* C12: while the timer is only the clock source (no one-shot was ever
\* stored), after k handled compare interrupts the threshold is the initial
\* threshold plus 250 * k modulo 2^16 and the accumulator is its initial value
\* plus k modulo 2^32, whatever the count was when each was handled.
C12_ThresholdFromPrevious ==
  nreq = 0 =>
    /\ OCR1A = (irq_hist.first + 250 * irq_hist.k) % W16
    /\ sys_msec = Add32(irq_hist.ms0, U32(irq_hist.k))

\* an interrupt was handled in pure clock operation after the counter had run
\* past the threshold
C12_Witness == nreq = 0 /\ irq_hist.k >= 1 /\ irq_hist.lat > 0

\* SEI_TIMER and CLI_TIMER applied twice leave the registers as applied once
Idempotent ==
  /\ SEI_TIMER_flags(SEI_TIMER_flags(TIFR1)) = SEI_TIMER_flags(TIFR1)
  /\ SEI_TIMER_mask(SEI_TIMER_mask(TIMSK1)) = SEI_TIMER_mask(TIMSK1)
  /\ CLI_TIMER_flags(CLI_TIMER_flags(TIFR1)) = CLI_TIMER_flags(TIFR1)
  /\ CLI_TIMER_mask(CLI_TIMER_mask(TIMSK1)) = CLI_TIMER_mask(TIMSK1)

\* C13 as stated: every interrupt handled serves a compare match that was
\* raised while the interrupt was enabled, none a match raised while it was
\* disabled, for every place of the match among the writes of CLI_TIMER and
\* SEI_TIMER; and SEI_TIMER and CLI_TIMER are idempotent.
C13_NoInterruptForMatchWhileDisabled ==
  /\ irq_hist.k > 0 => irq_hist.served = "enabled"
  /\ Idempotent

\* C13, amended: no interrupt is delivered for a compare match raised while
\* the interrupt was disabled and before the flag clear of the SEI_TIMER that
\* enables it again; a match raised between the two writes of SEI_TIMER is
\* delivered when the enable is written; SEI_TIMER and CLI_TIMER are idempotent.
C13_NoInterruptForStaleMatch ==
  /\ irq_hist.k > 0 => irq_hist.served \in {"enabled", "in_sei"}
  /\ Idempotent

\* a match was raised while the interrupt was disabled; the interrupt has been
\* enabled again, the flag is gone and no interrupt was delivered
C13_Witness ==
  /\ irq_hist.raised = "disabled" /\ irq_hist.k = 0
  /\ pc = "idle" /\ Bit(TIMSK1, OCIE1A) = 1 /\ Bit(TIFR1, OCF1A) = 0

\* a step of the compare interrupt handler
HandlerStep == irq_hist'.k # irq_hist.k

\* y is x + 1 modulo 2^32
Successor32(x, y) ==
  /\ Lo16(y) = (Lo16(x) + 1) % W16
  /\ Hi16(y) = IF Lo16(x) = W16 - 1 THEN (Hi16(x) + 1) % W16 ELSE Hi16(x)

\* x < y as unsigned 32-bit values
Less32(x, y) == Hi16(x) < Hi16(y) \/ (Hi16(x) = Hi16(y) /\ Lo16(x) < Lo16(y))

\* x increased n times by one, modulo 2^32
RECURSIVE Counted32(_, _)
Counted32(x, n) ==
  IF n = 0 THEN x
  ELSE LET y == Counted32(x, n - 1)
           lo == (Lo16(y) + 1) % W16
       IN  Halves(IF lo = 0 THEN (Hi16(y) + 1) % W16 ELSE Hi16(y), lo)

\* C14: accumulated_ms (sys_msec) changes only in steps of the compare
\* interrupt handler, never in a step of m_now, u_now, schedule or cancel;
\* every handler step changes it from v to v + 1 modulo 2^32 (one period of
\* one millisecond); so it never decreases except from 2^32 - 1 to 0, and at
\* any time it is its starting value plus one for each interrupt handled so
\* far, whatever calls were made in between.
C14_OnlyHandlerAdvances ==
  /\ [](sys_msec = Counted32(irq_hist.ms0, irq_hist.k))
  /\ [][sys_msec' # sys_msec => HandlerStep]_vars
  /\ [][HandlerStep => Successor32(sys_msec, sys_msec')]_vars
  /\ [][Less32(sys_msec', sys_msec) => (sys_msec = U32_MAX /\ sys_msec' = U32(0))]_vars

\* the accumulator has wrapped from 2^32 - 1 to 0 in the handler, a one-shot
\* was armed and has fired, and a later foreground call has run to its end
C14_Witness ==
  /\ irq_hist.ms0 = U32_MAX /\ irq_hist.k >= 1 /\ sys_msec = Counted32(U32(0), irq_hist.k - 1)
  /\ req.done /\ pc = "idle" /\ ncalls >= 2 /\ called # "none"

\* C15: for every usec in 0..MAX_USEC, USEC_TO_CLK(usec) is floor(usec / 4),
\* fits the 16-bit compare register, and its intermediate usec * FM_CPU does
\* not overflow 32 bits; times CLK_CYCLES_PER_USEC it gives usec back when usec
\* is divisible by 4 and otherwise falls short of usec by less than 4.
C15_TruncatingConversion ==
  (pc = "done" /\ op = "USEC_TO_CLK") =>
    /\ ret = arg \div 4
    /\ ret < W16
    /\ NonNeg32(Mul32(U32(arg), U32(FM_CPU)))
    /\ Int32(Mul32(U32(arg), U32(FM_CPU))) = arg * 16
    /\ LET back == ret * CLK_CYCLES_PER_USEC
       IN  IF arg % 4 = 0 THEN back = arg ELSE back < arg /\ arg - back < 4

\* the last microsecond count below MAX_USEC, not divisible by 4, was converted
\* to 65534 ticks
C15_Witness ==
  pc = "done" /\ op = "USEC_TO_CLK" /\ arg = MAX_USEC - 1 /\ arg % 4 = 3 /\ ret = 65534

\* the product a * x of a < 2^15 and a 32-bit x stays below 2^32
NoWrapMul(a, x) == a * Hi16(x) + ((a * Lo16(x)) \div W16) < W16

\* C16: MSEC_TO_CLK(1) is 250, and for every msec up to 262 MSEC_TO_CLK(msec)
\* is exactly 250 * msec, a tick count that fits the 16-bit counter, with the
\* intermediate msec * F_CPU below 2^32.
C16_MillisecondsToTicks ==
  (pc = "done" /\ op = "MSEC_TO_CLK") =>
    /\ ret = 250 * arg
    /\ ret < W16
    /\ NoWrapMul(arg, U32(F_CPU))
    /\ arg = 1 => ret = 250

\* the largest millisecond count of the range was converted
C16_Witness == pc = "done" /\ op = "MSEC_TO_CLK" /\ arg = 262 /\ ret = 65500

\* C17: wherever it is expanded MAX_USEC stands for the one value 262140, and a
\* conversion of a sum converts the sum: d / MAX_USEC is floor(d / 262140),
\* d % MAX_USEC is d mod 262140, and MSEC_TO_CLK(a + b) and USEC_TO_CLK(a + b)
\* are the conversions of the value a + b.
C17_MacrosActAsValues ==
  pc = "done" =>
    /\ op = "div MAX_USEC" => ret = arg \div 262140
    /\ op = "mod MAX_USEC" => ret = arg % 262140
    /\ op = "MSEC_TO_CLK sum" => ret = MSEC_TO_CLK(arg + loc_cnt)
    /\ op = "USEC_TO_CLK sum" => ret = USEC_TO_CLK(arg + loc_cnt)

\* C18: SEI_TIMER and CLI_TIMER change only bit OCIE1A of TIMSK1 and only the
\* flag OCF1A of TIFR1: every other enable bit and every other pending flag is
\* after the macro as it was found, and so are TCNT1 and OCR1A.
C18_OnlyCompareA ==
  (pc = "done" /\ op \in {"SEI_TIMER", "CLI_TIMER"}) =>
    /\ \A n \in (0..7) \ {OCIE1A} : Bit(TIMSK1, n) = Bit(arg, n)
    /\ \A n \in (0..7) \ {OCF1A} : Bit(TIFR1, n) = Bit(loc_cnt, n)
    /\ TCNT1 = 0 /\ OCR1A = PERIOD_TICKS

====
